---- MODULE Spec2Model ----
(***************************************************************************)
(* Model of the ModK front end: the scanner (src/lexer.cpp), the           *)
(* recursive-descent / precedence-climbing parser and the code generator   *)
(* (src/parser.cpp).                                                       *)
(*                                                                         *)
(* Characters are one-character strings, the end-of-input sentinel of      *)
(* getchar() is EOF.  A token is either one of the names of enum Token or  *)
(* the raw character itself.  An absent (null) pointer is Null.            *)
(***************************************************************************)
EXTENDS Integers, Sequences, FiniteSets, TLC

VARIABLES
    input,            \* the character source as it was before any read
    lex,              \* scanner/parser globals: rest of stdin, LastCharacter,
                      \* IdentifierStr, NumberValue, CurrentToken, stderr
    toks,             \* tokens returned by successive GetToken calls
    BinOpPrecedence,  \* static std::map<char,int> BinOpPrecedence
    ppc,              \* position of the parsing driver
    presult,          \* what the last parse function returned
    TheModule,        \* module function table: name -> function
    NamedValues,      \* per-function symbol table: name -> value handle
    lowered,          \* number of FunctionAST::codegen calls made so far
    lastFn,           \* the Function node handed to the last codegen call
    lastRet,          \* what that call returned
    lastTrace,        \* what that call did, in order
    prevModule,       \* TheModule as it was before that call
    prevNamed         \* NamedValues as it was before that call

vars == <<input, lex, toks, BinOpPrecedence, ppc, presult, TheModule,
          NamedValues, lowered, lastFn, lastRet, lastTrace, prevModule,
          prevNamed>>

lexVars == <<input, lex, toks>>
parseVars == <<BinOpPrecedence, ppc, presult>>
genVars == <<TheModule, NamedValues, lowered, lastFn, lastRet, lastTrace,
             prevModule, prevNamed>>

-----------------------------------------------------------------------------
(* Bounds *)

MaxInput == 4
MaxLexemes == 5
MaxPrec == 2
MaxLowerings == 2

-----------------------------------------------------------------------------
(* Characters and <cctype> *)

EOF == "EOF"
Null == [kind |-> "null"]

Letters == {"a", "b", "c", "d", "e", "f", "g", "h", "i", "j", "k", "l", "m",
            "n", "o", "p", "q", "r", "s", "t", "u", "v", "w", "x", "y", "z"}
Digits == {"0", "1", "2", "3", "4", "5", "6", "7", "8", "9"}
Spaces == {" ", "\n", "\t", "\r"}

isspace(c) == c \in Spaces
isalpha(c) == c \in Letters
isdigit(c) == c \in Digits
isalnum(c) == isalpha(c) \/ isdigit(c)

DigitVal(c) ==
    CASE c = "0" -> 0 [] c = "1" -> 1 [] c = "2" -> 2 [] c = "3" -> 3
      [] c = "4" -> 4 [] c = "5" -> 5 [] c = "6" -> 6 [] c = "7" -> 7
      [] c = "8" -> 8 [] c = "9" -> 9

-----------------------------------------------------------------------------
(* Scanner, src/lexer.cpp *)

\* getchar(): the next character of stdin, EOF for ever once it is exhausted
getchar(L) ==
    IF L.in = <<>> THEN [L EXCEPT !.last = EOF]
    ELSE [L EXCEPT !.last = Head(L.in), !.in = Tail(L.in)]

\* while(isspace(LastCharacter)) LastCharacter = getchar();
RECURSIVE SkipWhitespace(_)
SkipWhitespace(L) ==
    IF isspace(L.last) THEN SkipWhitespace(getchar(L)) ELSE L

\* while(isalnum((LastCharacter = getchar()))) IdentifierStr += LastCharacter;
RECURSIVE ReadIdentifier(_)
ReadIdentifier(L) ==
    LET L1 == getchar(L)
    IN  IF isalnum(L1.last)
        THEN ReadIdentifier([L1 EXCEPT !.id = Append(L1.id, L1.last)])
        ELSE L1

\* switch(IdentifierStr) { case "func": ... default: TokenIdentifier }
KeywordToken(id) ==
    CASE id = <<"f", "u", "n", "c">> -> "Token_func"
      [] id = <<"i", "3", "2">> -> "Token_i32"
      [] id = <<"u", "3", "2">> -> "Token_u32"
      [] id = <<"c", "h", "a", "r">> -> "Token_char"
      [] id = <<"u", "c", "h", "a", "r">> -> "Token_uchar"
      [] id = <<"s", "t", "r">> -> "Token_str"
      [] id = <<"f", "3", "2">> -> "Token_f32"
      [] id = <<"u", "f", "3", "2">> -> "Token_uf32"
      [] OTHER -> "TokenIdentifier"

\* do { NumberStr += LastCharacter; LastCharacter = getchar(); }
\* while(isdigit(LastCharacter) || LastCharacter == '.');
\* returns the scanner state and the accumulated NumberStr
RECURSIVE ReadNumber(_, _)
ReadNumber(L, str) ==
    LET s1 == Append(str, L.last)
        L1 == getchar(L)
    IN  IF isdigit(L1.last) \/ L1.last = "."
        THEN ReadNumber(L1, s1)
        ELSE [l |-> L1, str |-> s1]

\* the longest prefix of s made of digits
RECURSIVE DigitPrefix(_)
DigitPrefix(s) ==
    IF s # <<>> /\ isdigit(Head(s)) THEN <<Head(s)>> \o DigitPrefix(Tail(s))
    ELSE <<>>

RECURSIVE DecimalValue(_, _)
DecimalValue(s, acc) ==
    IF s = <<>> THEN acc
    ELSE DecimalValue(Tail(s), 10 * acc + DigitVal(Head(s)))

RECURSIVE TrimZeros(_)
TrimZeros(s) ==
    IF s # <<>> /\ s[Len(s)] = "0" THEN TrimZeros(SubSeq(s, 1, Len(s) - 1))
    ELSE s

\* strtod(NumberStr, 0) on a string of digits and points: the integer part,
\* then at most one point and the digits after it; everything from a second
\* point on is not converted.  The value is ip + 0.fp.
strtod(s) ==
    LET ipart == DigitPrefix(s)
        rest == SubSeq(s, Len(ipart) + 1, Len(s))
        fpart == IF rest # <<>> /\ Head(rest) = "."
                 THEN DigitPrefix(Tail(rest)) ELSE <<>>
    IN  [ip |-> DecimalValue(ipart, 0), fp |-> TrimZeros(fpart)]

\* do LastCharacter = getchar();
\* while(LastCharacter != EOF && LastCharacter != '\n' && LastCharacter != 'r');
RECURSIVE SkipComment(_)
SkipComment(L) ==
    LET L1 == getchar(L)
    IN  IF L1.last # EOF /\ L1.last # "\n" /\ L1.last # "r"
        THEN SkipComment(L1)
        ELSE L1

\* GetToken once the identifier has been accumulated: the keyword switch
IdentifierToken(L) == [tok |-> KeywordToken(L.id), l |-> L]

\* GetToken once NumberStr has been accumulated: NumberVal = strtod(...)
NumberToken(r) ==
    [tok |-> "TokenNumber", l |-> [r.l EXCEPT !.num = strtod(r.str)]]

\* GetToken from if(LastCharacter == EOF) on
EndOrCharacter(L) ==
    IF L.last = EOF THEN [tok |-> "Token_EOF", l |-> L]
    ELSE [tok |-> L.last, l |-> getchar(L)]

RECURSIVE GetToken(_)

\* GetToken after the comment loop: if(LastCharacter != EOF) return GetToken()
AfterComment(L) ==
    IF L.last # EOF THEN GetToken(L) ELSE EndOrCharacter(L)

\* GetToken after the whitespace loop
ScanToken(L) ==
    IF isalpha(L.last)
    THEN IdentifierToken(ReadIdentifier([L EXCEPT !.id = <<L.last>>]))
    ELSE IF isdigit(L.last) \/ L.last = "."
    THEN NumberToken(ReadNumber(L, <<>>))
    ELSE IF L.last = "#"
    THEN AfterComment(SkipComment(L))
    ELSE EndOrCharacter(L)

\* static int GetToken(void): the token and the scanner state after it
GetToken(L) == ScanToken(SkipWhitespace(L))

\* the scanner globals before the first read (LastCharacter = ' ')
InitLex(in) ==
    [in |-> in, last |-> " ", id |-> <<>>, num |-> [ip |-> 0, fp |-> <<>>],
     cur |-> "none", err |-> <<>>]

\* a returned token with the payload that is valid right after it
Lexeme(r) ==
    [tok |-> r.tok,
     id |-> IF r.tok = "TokenIdentifier" THEN r.l.id ELSE <<>>,
     num |-> IF r.tok = "TokenNumber" THEN r.l.num ELSE [ip |-> 0, fp |-> <<>>]]

-----------------------------------------------------------------------------
(* Scanner specification: a caller pulls tokens until end of input *)

LexChars == {"a", "r", "1", ".", "#", "\n", " ", "+"}

RECURSIVE SeqsUpTo(_, _)
SeqsUpTo(S, n) ==
    IF n = 0 THEN {<<>>}
    ELSE LET shorter == SeqsUpTo(S, n - 1)
         IN  shorter \cup {Append(s, x) : s \in shorter, x \in S}

GenIdle ==
    /\ TheModule = [n \in {} |-> Null]
    /\ NamedValues = [n \in {} |-> Null]
    /\ lowered = 0
    /\ lastFn = Null
    /\ lastRet = Null
    /\ lastTrace = <<>>
    /\ prevModule = [n \in {} |-> Null]
    /\ prevNamed = [n \in {} |-> Null]

ParseIdle ==
    /\ BinOpPrecedence = [c \in {} |-> 0]
    /\ ppc = "start"
    /\ presult = Null

LexInit ==
    /\ input \in SeqsUpTo(LexChars, MaxInput)
    /\ lex = InitLex(input)
    /\ toks = <<>>
    /\ ParseIdle
    /\ GenIdle

\* one call of GetToken() by the caller
NextToken ==
    /\ IF toks = <<>> THEN TRUE ELSE toks[Len(toks)].tok # "Token_EOF"
    /\ \E r \in {GetToken(lex)} :
          /\ lex' = r.l
          /\ toks' = Append(toks, Lexeme(r))
    /\ UNCHANGED <<input, parseVars, genVars>>

LexNext == NextToken

LexSpec == LexInit /\ [][LexNext]_vars

\* the tokens of a whole character source, as successive GetToken calls
\* return them, up to and including Token_EOF
RECURSIVE LexFrom(_)
LexRest(r) ==
    IF r.tok = "Token_EOF" THEN <<Lexeme(r)>>
    ELSE <<Lexeme(r)>> \o LexFrom(r.l)

LexFrom(L) == LexRest(GetToken(L))

LexAll(in) == LexFrom(InitLex(in))

\* the character source with every comment removed: from a '#' up to, and
\* not including, the end of its line
RECURSIVE StripComments(_, _)
StripComments(in, inComment) ==
    IF in = <<>> THEN <<>>
    ELSE IF inComment
    THEN IF Head(in) = "\n" THEN <<"\n">> \o StripComments(Tail(in), FALSE)
         ELSE StripComments(Tail(in), TRUE)
    ELSE IF Head(in) = "#" THEN StripComments(Tail(in), TRUE)
    ELSE <<Head(in)>> \o StripComments(Tail(in), FALSE)

LexDone == toks # <<>> /\ toks[Len(toks)].tok = "Token_EOF"

\* C4: the tokens returned for an input are the tokens of the same input
\* with the text of its comments removed, whatever that text is, and a
\* comment that runs to the end of input is followed by Token_EOF
C4_CommentsYieldNoToken ==
    LexDone => toks = LexAll(StripComments(input, FALSE))

-----------------------------------------------------------------------------
(* AST nodes, src/parser.cpp *)

NumberLiteralAST(v) == [kind |-> "num", val |-> v]
VariableExpressionAST(name) == [kind |-> "var", name |-> name]

\* BinaryExpressionAST(_op, _rhs, _lhs) : LHS {_lhs}, RHS {_rhs}
\* the first operand of the constructor initialises RHS, the second LHS
BinaryExpressionAST(op, rhs, lhs) ==
    [kind |-> "bin", op |-> op, LHS |-> lhs, RHS |-> rhs]

FuncCallAST(caller, args) == [kind |-> "call", callee |-> caller, args |-> args]
PrototypeAST(name, args) == [kind |-> "proto", name |-> name, args |-> args]
FunctionAST(proto, body) == [kind |-> "func", proto |-> proto, body |-> body]

-----------------------------------------------------------------------------
(* Parser, src/parser.cpp.  Every parse function takes the scanner/parser   *)
(* globals and returns the node (or Null) with the globals after the call. *)

TokenNames == {"Token_EOF", "Token_func", "Token_i32", "Token_u32",
               "Token_char", "Token_uchar", "Token_str", "Token_f32",
               "Token_uf32", "TokenIdentifier", "TokenNumber"}

\* static int GetNextToken() { return CurrentToken = GetToken(); }
SetCurrentToken(r) == [r.l EXCEPT !.cur = r.tok]
GetNextToken(S) == SetCurrentToken(GetToken(S))

\* LogError / LogErrorProto: one line on stderr, the caller returns nullptr
LogError(S, str) == [S EXCEPT !.err = Append(@, str)]

\* ParseNumExpr: make the literal, then GetNextToken()
ParseNumExpr(S) ==
    [ast |-> NumberLiteralAST(S.num), s |-> GetNextToken(S)]

\* BinOpPrecedence[c]: operator[] of std::map yields 0 for a key it lacks
PrecedenceOf(c) ==
    IF c \in DOMAIN BinOpPrecedence THEN BinOpPrecedence[c] ELSE 0

\* GetTokenPrecedence: -1 for a token of enum Token (negative, not ascii)
\* and for a character whose precedence is not positive
GetTokenPrecedence(S) ==
    IF S.cur \in TokenNames THEN -1
    ELSE IF PrecedenceOf(S.cur) <= 0 THEN -1
    ELSE PrecedenceOf(S.cur)

RECURSIVE ParseExpression(_)
RECURSIVE ParseBinaryOpRHS(_, _, _)
RECURSIVE ParseCallArgs(_, _, _)

\* ParseParentExpr after auto v = ParseExpression(): require ')'
ExpectCloseParen(v) ==
    IF v.ast = Null THEN v
    ELSE IF v.s.cur # ")"
    THEN [ast |-> Null, s |-> LogError(v.s, "Expected ')'")]
    ELSE [ast |-> v.ast, s |-> GetNextToken(v.s)]

\* ParseParentExpr: skip the current token, parse an expression, require ')'
ParseParentExpr(S) == ExpectCloseParen(ParseExpression(GetNextToken(S)))

\* one turn of the while(true) loop of ParseIdentifierExpr, after
\* auto _arg = ParseExpression()
AfterCallArg(Id_name, args, _arg) ==
    IF _arg.ast = Null THEN [ast |-> Null, s |-> _arg.s]
    ELSE IF _arg.s.cur = ")"
    THEN [ast |-> FuncCallAST(Id_name, Append(args, _arg.ast)),
          s |-> GetNextToken(_arg.s)]
    ELSE IF _arg.s.cur # ","
    THEN [ast |-> Null,
          s |-> LogError(_arg.s, "Expected ) or , in arg list")]
    ELSE ParseCallArgs(Id_name, GetNextToken(_arg.s), Append(args, _arg.ast))

\* the while(true) loop of ParseIdentifierExpr
ParseCallArgs(Id_name, S, args) ==
    AfterCallArg(Id_name, args, ParseExpression(S))

\* ParseIdentifierExpr after the identifier is consumed; when the current
\* token is '(' it is NOT consumed before the argument loop starts.  The
\* nodes made are the variable (make_unique<ExpressionAST>(Id_name)) and
\* the call (make_unique<FunctionAST>(Id_name, _args)).
AfterIdentifier(Id_name, S) ==
    IF S.cur # "("
    THEN [ast |-> VariableExpressionAST(Id_name), s |-> S]
    ELSE IF S.cur # ")"
    THEN ParseCallArgs(Id_name, S, <<>>)
    ELSE [ast |-> FuncCallAST(Id_name, <<>>), s |-> GetNextToken(S)]

ParseIdentifierExpr(S) == AfterIdentifier(S.id, GetNextToken(S))

\* ParsePrimary: the parenthesised form is entered on Token_func, and '('
\* falls to the default case.  The functions called for the type keywords
\* are not defined in the source; no input of this model holds one.
ParsePrimary(S) ==
    CASE S.cur = "TokenIdentifier" -> ParseIdentifierExpr(S)
      [] S.cur = "Token_func" -> ParseParentExpr(S)
      [] S.cur = "TokenNumber" -> ParseNumExpr(S)
      [] S.cur \in {"Token_i32", "Token_u32", "Token_char", "Token_uchar",
                    "Token_str", "Token_f32", "Token_uf32"} ->
            [ast |-> Null, s |-> S]
      [] OTHER ->
            [ast |-> Null, s |-> LogError(S, "Unkown token while parsing")]

\* ParseExpression after auto lhs = ParsePrimary()
AfterPrimary(lhs) ==
    IF lhs.ast = Null THEN lhs
    ELSE ParseBinaryOpRHS(0, lhs.ast, lhs.s)

ParseExpression(S) == AfterPrimary(ParsePrimary(S))

\* one turn of the loop of ParseBinaryOpRHS after auto RHS = ParsePrimary():
\* absent when the operator after RHS binds tighter than BinaryOp
AfterRHS(ExprPrecedence, TokenPrecedence, BinaryOp, LHS, RHS) ==
    IF RHS.ast = Null THEN RHS
    ELSE IF TokenPrecedence < GetTokenPrecedence(RHS.s)
    THEN [ast |-> Null, s |-> RHS.s]
    ELSE ParseBinaryOpRHS(ExprPrecedence,
                          BinaryExpressionAST(BinaryOp, LHS, RHS.ast),
                          RHS.s)

\* ParseBinaryOpRHS: one turn of while(true) per recursive call
ParseBinaryOpRHS(ExprPrecedence, LHS, S) ==
    IF GetTokenPrecedence(S) < ExprPrecedence THEN [ast |-> LHS, s |-> S]
    ELSE AfterRHS(ExprPrecedence, GetTokenPrecedence(S), S.cur, LHS,
                  ParsePrimary(GetNextToken(S)))

RECURSIVE ParsePrototypeArgs(_, _)

\* while(GetNextToken() == Token::TokenIdentifier) arg_names.push(IdentifierStr)
AfterPrototypeToken(S, arg_names) ==
    IF S.cur = "TokenIdentifier"
    THEN ParsePrototypeArgs(S, Append(arg_names, S.id))
    ELSE [s |-> S, args |-> arg_names]

ParsePrototypeArgs(S, arg_names) ==
    AfterPrototypeToken(GetNextToken(S), arg_names)

\* ParsePrototype after the parameter loop: require ')'
ClosePrototype(full_name, a) ==
    IF a.s.cur # ")"
    THEN [ast |-> Null, s |-> LogError(a.s, "Expected ')' in prototpye")]
    ELSE [ast |-> PrototypeAST(full_name, a.args), s |-> GetNextToken(a.s)]

\* ParsePrototype after the function name is consumed: require '('
AfterPrototypeName(full_name, S) ==
    IF S.cur # "("
    THEN [ast |-> Null, s |-> LogError(S, "Expected '(' in prototype")]
    ELSE ClosePrototype(full_name, ParsePrototypeArgs(S, <<>>))

ParsePrototype(S) ==
    IF S.cur # "TokenIdentifier"
    THEN [ast |-> Null,
          s |-> LogError(S, "Expected a function name in prototype")]
    ELSE AfterPrototypeName(S.id, GetNextToken(S))

\* if(auto e = ParseExpression()) return FunctionAST(proto, e); return nullptr
WrapBody(proto, e) ==
    IF e.ast # Null THEN [ast |-> FunctionAST(proto, e.ast), s |-> e.s]
    ELSE e

\* ParseDefinition after auto Prototype = ParsePrototype()
AfterPrototype(Prototype) ==
    IF Prototype.ast = Null THEN Prototype
    ELSE WrapBody(Prototype.ast, ParseExpression(Prototype.s))

ParseDefinition(S) == AfterPrototype(ParsePrototype(GetNextToken(S)))

AnonName == <<"_", "_", "a", "n", "o", "n", "_", "e", "p", "x", "r">>

ParseTopLevelExpr(S) ==
    WrapBody(PrototypeAST(AnonName, <<>>), ParseExpression(S))

-----------------------------------------------------------------------------
(* Parser specification: the driver installs operator precedences, reads   *)
(* the first token and hands one top-level unit to the parser              *)

PrecOps == {"+", "*"}

ParseLexemes == {<<"a">>, <<"1">>, <<"+">>, <<"*">>, <<"(">>, <<")">>,
                 <<",">>, <<"f", "u", "n", "c", " ">>}

RECURSIVE Flatten(_)
Flatten(ss) == IF ss = <<>> THEN <<>> ELSE Head(ss) \o Flatten(Tail(ss))

ParseInit ==
    /\ input \in {Flatten(ls) : ls \in SeqsUpTo(ParseLexemes, MaxLexemes)}
    /\ lex = InitLex(input)
    /\ toks = <<>>
    /\ BinOpPrecedence = [c \in PrecOps |-> 0]
    /\ ppc = "start"
    /\ presult = Null
    /\ GenIdle

\* BinOpPrecedence[op] = p.  The table is declared empty and the driver that
\* fills it is not part of the sources, so any positive precedence may be
\* installed for an operator before parsing starts.
InstallBinOp ==
    /\ ppc = "start"
    /\ \E op \in PrecOps, p \in 1..MaxPrec :
          /\ BinOpPrecedence[op] = 0
          /\ BinOpPrecedence' = [BinOpPrecedence EXCEPT ![op] = p]
    /\ UNCHANGED <<lexVars, ppc, presult, genVars>>

\* the driver primes the one-token lookahead
Prime ==
    /\ ppc = "start"
    /\ lex' = GetNextToken(lex)
    /\ ppc' = "ready"
    /\ UNCHANGED <<input, toks, BinOpPrecedence, presult, genVars>>

\* repl(), case Token::Token_func
ParseDefinitionStep ==
    /\ ppc = "ready"
    /\ lex.cur = "Token_func"
    /\ \E r \in {ParseDefinition(lex)} :
          /\ presult' = r.ast
          /\ lex' = r.s
    /\ ppc' = "done"
    /\ UNCHANGED <<input, toks, BinOpPrecedence, genVars>>

\* repl(), default case
ParseTopLevelExprStep ==
    /\ ppc = "ready"
    /\ lex.cur \notin {"Token_EOF", ";", "Token_func", "TokenNumber",
                       "Token_i32", "Token_u32", "Token_char", "Token_uchar",
                       "Token_str", "Token_f32", "Token_uf32"}
    /\ \E r \in {ParseTopLevelExpr(lex)} :
          /\ presult' = r.ast
          /\ lex' = r.s
    /\ ppc' = "done"
    /\ UNCHANGED <<input, toks, BinOpPrecedence, genVars>>

ParseNext ==
    \/ InstallBinOp
    \/ Prime
    \/ ParseDefinitionStep
    \/ ParseTopLevelExprStep

ParseSpec == ParseInit /\ [][ParseNext]_vars

-----------------------------------------------------------------------------
(* Code generator, src/parser.cpp.  The backend is seen through its calls:  *)
(* a trace records every codegen() entered, every backend operation and    *)
(* every diagnostic, in order.  An IR value is the term that computes it.  *)

EmptyMap == [n \in {} |-> Null]

Range(f) == {f[i] : i \in DOMAIN f}

\* the value a function that flows off its end without a return yields
Indeterminate == [kind |-> "indeterminate"]

\* what BinaryExpressionAST's codegen can hand back after its default case
MissingReturnOutcomes == {Null, Indeterminate}

ArgumentValue(fname, arg) == [kind |-> "arg", fn |-> fname, name |-> arg]
FunctionValue(fname) == [kind |-> "function", name |-> fname]

\* LogErrorV: one diagnostic, returns nullptr
LogErrorV(G, str) == [G EXCEPT !.tr = Append(@, str)]

Emit(G, op) == [G EXCEPT !.tr = Append(@, op)]

\* NumberExpressionAST::codegen
NumberCodegen(e, G) ==
    [val |-> [kind |-> "const", val |-> e.val],
     g |-> Emit(Emit(G, "codegen Number"), "ConstantFP::get")]

\* VariableExpressionAST::codegen: Value* V = NamedValues[Name] default-
\* inserts a null binding for a name the table lacks
VariableCodegen(e, G) ==
    LET G1 == Emit(G, "codegen Variable")
        nv1 == IF e.name \in DOMAIN G1.nv THEN G1.nv
               ELSE [n \in DOMAIN G1.nv \cup {e.name} |->
                        IF n = e.name THEN Null ELSE G1.nv[n]]
        V == nv1[e.name]
        G2 == [G1 EXCEPT !.nv = nv1]
    IN  [val |-> V,
         g |-> IF V = Null THEN LogErrorV(G2, "Unkown Variable name") ELSE G2]

\* the switch(Op) of BinaryExpressionAST's codegen; the default case logs
\* and then flows off the end of the function
BinarySwitch(op, L, R, G, ub) ==
    CASE op = "+" ->
            [val |-> [kind |-> "fadd", l |-> L, r |-> R],
             g |-> Emit(G, "CreateFAdd")]
      [] op = "-" ->
            [val |-> [kind |-> "fsub", l |-> L, r |-> R],
             g |-> Emit(G, "CreateFSub")]
      [] op = "*" ->
            [val |-> [kind |-> "fmul", l |-> L, r |-> R],
             g |-> Emit(G, "CreateFMul")]
      [] op = "<" ->
            [val |-> [kind |-> "uitofp",
                      v |-> [kind |-> "fcmpult", l |-> L, r |-> R]],
             g |-> Emit(Emit(G, "CreateFCmpULT"), "CreateUIToFP")]
      [] OTHER ->
            [val |-> ub, g |-> LogErrorV(G, "Invalid Binary Operator")]

RECURSIVE ExprCodegen(_, _, _, _)
RECURSIVE CallArgsCodegen(_, _, _, _, _, _)

\* the argument loop of CallExpressionAST::codegen, from argument i on
CallArgsCodegen(e, i, args_v, M, G, ub) ==
    IF i > Len(e.args)
    THEN [val |-> [kind |-> "call", callee |-> e.callee, args |-> args_v],
          g |-> Emit(G, "CreateCall")]
    ELSE LET a == ExprCodegen(e.args[i], M, G, ub)
         IN  IF a.val = Null THEN [val |-> Null, g |-> a.g]
             ELSE CallArgsCodegen(e, i + 1, Append(args_v, a.val), M, a.g, ub)

\* a call lowering that does not compare the argument count with the arity
CallCodegen_NoArityCheck(e, M, G, ub) ==
    LET G1 == Emit(G, "codegen Call")
    IN  IF e.callee \notin DOMAIN M
        THEN [val |-> Null, g |-> LogErrorV(G1, "Unknown Function Referenced")]
        ELSE CallArgsCodegen(e, 1, <<>>, M, G1, ub)

\* CallExpressionAST::codegen
CallCodegen(e, M, G, ub) ==
    LET G1 == Emit(G, "codegen Call")
    IN  IF e.callee \notin DOMAIN M
        THEN [val |-> Null, g |-> LogErrorV(G1, "Unknown Function Referenced")]
        ELSE IF Len(M[e.callee].args) # Len(e.args)
        THEN [val |-> Null, g |-> LogErrorV(G1, "Incorrect Arguments passed")]
        ELSE CallArgsCodegen(e, 1, <<>>, M, G1, ub)

\* BinaryExpressionAST's codegen: both operands are lowered, then tested
BinaryCodegen(e, M, G, ub) ==
    LET L == ExprCodegen(e.LHS, M, Emit(G, "codegen Binary"), ub)
        R == ExprCodegen(e.RHS, M, L.g, ub)
    IN  IF L.val = Null \/ R.val = Null THEN [val |-> Null, g |-> R.g]
        ELSE BinarySwitch(e.op, L.val, R.val, R.g, ub)

\* ExpressionAST::codegen, virtual dispatch
ExprCodegen(e, M, G, ub) ==
    CASE e.kind = "num" -> NumberCodegen(e, G)
      [] e.kind = "var" -> VariableCodegen(e, G)
      [] e.kind = "bin" -> BinaryCodegen(e, M, G, ub)
      [] e.kind = "call" -> CallCodegen(e, M, G, ub)

\* PrototypeAST::codegen: Function::Create adds a bodiless function whose
\* arguments carry the prototype's parameter names
PrototypeCodegen(proto, M) ==
    [n \in DOMAIN M \cup {proto.name} |->
        IF n = proto.name
        THEN [args |-> proto.args, empty |-> TRUE, ret |-> Null]
        ELSE M[n]]

\* Function::eraseFromParent
EraseFromParent(M, name) == [n \in DOMAIN M \ {name} |-> M[n]]

\* a redefinition that erases the function it collides with
Redefinition_Erases(name, M, NV, tr) ==
    [ret |-> Null, M |-> EraseFromParent(M, name), NV |-> NV,
     tr |-> Append(tr, "Func cannot be redefined")]

\* FunctionAST::codegen, the branch taken when the function already has a
\* body: one diagnostic, nothing else is touched
Redefinition(name, M, NV, tr) ==
    [ret |-> Null, M |-> M, NV |-> NV,
     tr |-> Append(tr, "Func cannot be redefined")]

\* FunctionAST::codegen from BasicBlock::Create on: the entry block, the
\* symbol table reset to the function's arguments, the body, then either
\* the return and the verification or the erasure of the function
DefineBody(fn, name, M, tr, ub) ==
    LET M2 == [M EXCEPT ![name].empty = FALSE]
        NV1 == [a \in Range(M2[name].args) |-> ArgumentValue(name, a)]
        b == ExprCodegen(fn.body, M2,
                         [nv |-> NV1, tr |-> Append(tr, "BasicBlock::Create")],
                         ub)
    IN  IF b.val # Null
        THEN [ret |-> FunctionValue(name),
              M |-> [M2 EXCEPT ![name].ret = b.val],
              NV |-> b.g.nv,
              tr |-> b.g.tr \o <<"CreateRet", "verifyFunction">>]
        ELSE [ret |-> Null,
              M |-> EraseFromParent(M2, name),
              NV |-> b.g.nv,
              tr |-> Append(b.g.tr, "eraseFromParent")]

\* FunctionAST::codegen: the result, the module, the symbol table and the
\* trace after lowering fn in module M with symbol table NV.  The test
\* if(!theFunction) after proto->codegen() never fires: Function::Create
\* always yields a function.
FunctionCodegen(fn, M, NV, ub) ==
    LET name == fn.proto.name
        found == name \in DOMAIN M
        M1 == IF found THEN M ELSE PrototypeCodegen(fn.proto, M)
        t1 == IF found THEN <<"codegen Function">>
              ELSE <<"codegen Function", "Function::Create">>
    IN  IF ~M1[name].empty
        THEN Redefinition(name, M1, NV, t1)
        ELSE DefineBody(fn, name, M1, t1, ub)

-----------------------------------------------------------------------------
(* Code generator specification: the driver hands Function nodes to        *)
(* FunctionAST::codegen one after the other                                *)

GenNames == {<<"f">>, <<"g">>}
GenParams == {<<<<"x">>>>, <<<<"x">>, <<"y">>>>}
GenLeaves == {NumberLiteralAST([ip |-> 1, fp |-> <<>>]),
              VariableExpressionAST(<<"x">>), VariableExpressionAST(<<"y">>)}
GenVariables == {VariableExpressionAST(<<"x">>), VariableExpressionAST(<<"y">>)}
GenOps == {"+", "/"}
GenArgLists == {<<a>> : a \in GenLeaves}
                   \cup {<<a, b>> : a \in GenVariables, b \in GenLeaves}

GenExprs ==
    GenLeaves
    \cup {[kind |-> "bin", op |-> op, LHS |-> l, RHS |-> r] :
             op \in GenOps, l \in GenVariables, r \in GenVariables}
    \cup {FuncCallAST(c, as) : c \in GenNames, as \in GenArgLists}

GenFunctions ==
    {FunctionAST(PrototypeAST(n, ps), b) :
        n \in GenNames, ps \in GenParams, b \in GenExprs}

LexIdle ==
    /\ input = <<>>
    /\ lex = InitLex(<<>>)
    /\ toks = <<>>

Init ==
    /\ LexIdle
    /\ ParseIdle
    /\ TheModule = EmptyMap
    /\ NamedValues = EmptyMap
    /\ lowered = 0
    /\ lastFn = Null
    /\ lastRet = Null
    /\ lastTrace = <<>>
    /\ prevModule = EmptyMap
    /\ prevNamed = EmptyMap

\* one call of FunctionAST::codegen
LowerFunction ==
    /\ lowered < MaxLowerings
    /\ \E fn \in GenFunctions, ub \in MissingReturnOutcomes :
          LET r == FunctionCodegen(fn, TheModule, NamedValues, ub)
          IN  /\ TheModule' = r.M
              /\ NamedValues' = r.NV
              /\ lastFn' = fn
              /\ lastRet' = r.ret
              /\ lastTrace' = r.tr
    /\ prevModule' = TheModule
    /\ prevNamed' = NamedValues
    /\ lowered' = lowered + 1
    /\ UNCHANGED <<lexVars, parseVars>>

Next == LowerFunction

Spec == Init /\ [][Next]_vars

-----------------------------------------------------------------------------
(* Properties of the parser *)

OperandChars == {"a", "1"}

\* the node a one-character operand stands for
OperandNode(c) ==
    IF c = "a" THEN VariableExpressionAST(<<"a">>)
    ELSE NumberLiteralAST([ip |-> 1, fp |-> <<>>])

\* the tree "l op r": operator op, left operand l, right operand r
Tree(op, l, r) == [kind |-> "bin", op |-> op, LHS |-> l, RHS |-> r]

\* a top-level expression wrapped in the anonymous function
TopLevel(e) == FunctionAST(PrototypeAST(AnonName, <<>>), e)

\* C1: with precedence(hi) > precedence(lo), "a lo b hi c" parses to
\* a lo (b hi c) and "a hi b lo c" parses to (a hi b) lo c
C1_PrecedenceClimbing ==
    \A x, y, z \in OperandChars : \A lo, hi \in PrecOps :
        (ppc = "done" /\ PrecedenceOf(hi) > PrecedenceOf(lo)
            /\ PrecedenceOf(lo) > 0)
        => /\ input = <<x, lo, y, hi, z>> =>
                presult = TopLevel(Tree(lo, OperandNode(x),
                                   Tree(hi, OperandNode(y), OperandNode(z))))
           /\ input = <<x, hi, y, lo, z>> =>
                presult = TopLevel(Tree(lo, Tree(hi, OperandNode(x),
                                                 OperandNode(y)),
                                        OperandNode(z)))

\* C2: operators of equal precedence group to the left, "a op1 b op2 c" is
\* (a op1 b) op2 c, and every binary node has the operand written before
\* the operator as its left child and the one after it as its right child
C2_LeftAssociative ==
    \A x, y, z \in OperandChars : \A op1, op2 \in PrecOps :
        (ppc = "done" /\ PrecedenceOf(op1) = PrecedenceOf(op2)
            /\ PrecedenceOf(op1) > 0)
        => /\ input = <<x, op1, y, op2, z>> =>
                presult = TopLevel(Tree(op2, Tree(op1, OperandNode(x),
                                                  OperandNode(y)),
                                        OperandNode(z)))
           /\ input = <<x, op1, y>> =>
                presult = TopLevel(Tree(op1, OperandNode(x), OperandNode(y)))

\* what ParseExpression makes of the character source e on its own
ParseAlone(e) == ParseExpression(GetNextToken(InitLex(e)))

Complete(r) == r.ast # Null /\ r.s.cur = "Token_EOF"

IsExpression(e) == e # <<>> /\ Complete(ParseAlone(e))

\* C3: for every expression e, "(e)" parses to the tree of e, and the
\* unterminated "(e" is a parse error with no node
C3_Parentheses ==
    (ppc = "done" /\ input # <<>> /\ Head(input) = "(")
    => /\ (input[Len(input)] = ")"
            /\ IsExpression(SubSeq(input, 2, Len(input) - 1)))
          => presult
               = TopLevel(ParseAlone(SubSeq(input, 2, Len(input) - 1)).ast)
       /\ IsExpression(Tail(input))
          => (presult = Null /\ lex.err # <<>>)

\* C8: an identifier not followed by '(' is a Variable; followed by '(' it
\* is a Call with the comma-separated arguments up to ')', in order, and
\* the current token is then the one after ')'; a token other than ',' or
\* ')' after an argument is a parse error
C8_IdentifierExpr ==
    ppc = "done"
    => /\ input = <<"a">> => presult = TopLevel(OperandNode("a"))
       /\ input = <<"a", "(", ")">> =>
            (presult = TopLevel(FuncCallAST(<<"a">>, <<>>))
                /\ lex.cur = "Token_EOF")
       /\ \A x \in OperandChars :
            /\ input = <<"a", "(", x, ")">> =>
                 (presult = TopLevel(FuncCallAST(<<"a">>, <<OperandNode(x)>>))
                     /\ lex.cur = "Token_EOF")
            /\ input = <<"a", "(", x, ")", "+">> =>
                 lex.cur = "+"
       /\ input = <<"a", "(", "1", "a">> => presult = Null

IsDiagnostic(e) ==
    e \in {"Unkown Variable name", "Invalid Binary Operator",
           "Unknown Function Referenced", "Incorrect Arguments passed",
           "Func cannot be redefined"}

RECURSIVE CountDiagnostics(_)
CountDiagnostics(t) ==
    IF t = <<>> THEN 0
    ELSE (IF IsDiagnostic(Head(t)) THEN 1 ELSE 0) + CountDiagnostics(Tail(t))

\* C10: a parse function or a lowering function that returned absent has
\* emitted exactly one diagnostic for that failure
C10_OneDiagnosticPerFailure ==
    /\ (ppc = "done" /\ presult = Null) => Len(lex.err) = 1
    /\ (lowered > 0 /\ lastRet = Null) => CountDiagnostics(lastTrace) = 1

-----------------------------------------------------------------------------
(* Properties of the code generator *)

Lowered == lowered > 0

LastName == lastFn.proto.name

\* the last call was handed a function whose name already had a body
WasRedefinition ==
    Lowered /\ LastName \in DOMAIN prevModule /\ ~prevModule[LastName].empty

\* C5: lowering a Function whose name already has a body fails with
\* "function cannot be redefined" and leaves the function table as it was
C5_RedefinitionKeepsTable ==
    WasRedefinition
    => /\ lastRet = Null
       /\ lastTrace = <<"codegen Function", "Func cannot be redefined">>
       /\ TheModule = prevModule

\* a redefinition with another arity and another body was attempted
C5_Witness ==
    /\ WasRedefinition
    /\ Len(prevModule[LastName].args) # Len(lastFn.proto.args)
    /\ prevModule[LastName].ret # Null
    /\ lastRet = Null
    /\ TheModule[LastName] = prevModule[LastName]

HasBody(f) == ~f.empty /\ f.ret # Null

\* the body of the last function was lowered and raised a diagnostic
BodyFailed ==
    Lowered /\ ~WasRedefinition /\ CountDiagnostics(lastTrace) > 0

\* C6: every entry of the function table has a body, and a Function whose
\* body fails to lower (unknown variable, unknown callee, arity mismatch,
\* invalid operator) is removed again, returns absent and leaves the
\* functions defined before untouched
C6_FailedDefinitionRolledBack ==
    /\ \A n \in DOMAIN TheModule : HasBody(TheModule[n])
    /\ BodyFailed
       => /\ lastRet = Null
          /\ LastName \notin DOMAIN TheModule
          /\ TheModule = prevModule

\* what the body of the last function did: the trace without the steps of
\* FunctionAST::codegen itself
IsBodyEvent(e) ==
    e \notin {"codegen Function", "Function::Create", "BasicBlock::Create",
              "CreateRet", "verifyFunction", "eraseFromParent",
              "Func cannot be redefined"}

BodyTrace == SelectSeq(lastTrace, IsBodyEvent)

LastParams == Range(lastFn.proto.args)

\* lowering of a literal or variable argument inside the last function
LeafFails(a) == a.kind = "var" /\ a.name \notin LastParams

LeafTrace(a) ==
    IF a.kind = "num" THEN <<"codegen Number", "ConstantFP::get">>
    ELSE IF LeafFails(a) THEN <<"codegen Variable", "Unkown Variable name">>
    ELSE <<"codegen Variable">>

\* arguments from the i-th on, left to right, up to the first that fails;
\* the call instruction only when none fails
RECURSIVE ArgumentsThenCall(_, _)
ArgumentsThenCall(args, i) ==
    IF i > Len(args) THEN <<"CreateCall">>
    ELSE IF LeafFails(args[i]) THEN LeafTrace(args[i])
    ELSE LeafTrace(args[i]) \o ArgumentsThenCall(args, i + 1)

\* the functions a call in the last body could see, with their arity
CalleeKnown(c) == c = LastName \/ c \in DOMAIN prevModule
CalleeArity(c) ==
    IF c = LastName THEN Len(lastFn.proto.args) ELSE Len(prevModule[c].args)

\* C7: a call to an unknown function, or with the wrong number of
\* arguments, fails with its diagnostic before any argument is lowered and
\* emits no call; otherwise arguments are lowered left to right and the
\* first that fails ends the call without a call instruction
C7_CallChecksBeforeEmit ==
    (Lowered /\ ~WasRedefinition /\ lastFn.body.kind = "call")
    => LET c == lastFn.body
       IN  IF ~CalleeKnown(c.callee)
           THEN /\ BodyTrace = <<"codegen Call", "Unknown Function Referenced">>
                /\ lastRet = Null
           ELSE IF CalleeArity(c.callee) # Len(c.args)
           THEN /\ BodyTrace = <<"codegen Call", "Incorrect Arguments passed">>
                /\ lastRet = Null
           ELSE /\ BodyTrace = <<"codegen Call">> \o ArgumentsThenCall(c.args, 1)
                /\ lastRet = Null <=> \E i \in DOMAIN c.args : LeafFails(c.args[i])

\* a function of one parameter, defined before, was called with two
\* arguments
C7_Witness ==
    /\ Lowered /\ ~WasRedefinition /\ lastFn.body.kind = "call"
    /\ lastFn.body.callee \in DOMAIN prevModule
    /\ lastFn.body.callee # LastName
    /\ Len(prevModule[lastFn.body.callee].args) = 1
    /\ Len(lastFn.body.args) = 2
    /\ lastRet = Null
    /\ "CreateCall" \notin Range(lastTrace)

\* C9: every Function lowering resets the symbol table, so the table only
\* ever binds parameters of the function lowered last, to its own arguments
C9_SymbolTableScoped ==
    Lowered
    => \A n \in DOMAIN NamedValues :
          /\ n \in LastParams
          /\ NamedValues[n] = ArgumentValue(LastName, n)

====
